---- MODULE Spec2Model ----
(***************************************************************************)
(* Model of app.py, the DFS Game Flow Engine script.                       *)
(*                                                                         *)
(* The script is a straight-line Streamlit page: it loads a salary table   *)
(* and a boxscore table, and then either scores the players (both tables   *)
(* loaded) or enters the lineup-level impact section (else branch).        *)
(*                                                                         *)
(* Numbers.  DK_POINTS is a multiple of 0.25; the model stores it as the   *)
(* integer 4 * DK_POINTS (Scale).  Quotients (VALUE, impact_score) are     *)
(* kept as exact fractions num/den; the binary floating point operations   *)
(* involved are exact on the modelled inputs (sums and products of         *)
(* multiples of 0.25), so only division and round() need care.             *)
(*                                                                         *)
(* Optional values.  None / an unbound name is the empty sequence <<>>,    *)
(* a bound table t is <<t>>.                                               *)
(***************************************************************************)
EXTENDS Integers, Sequences, FiniteSets, TLC

VARIABLES
    pc,           \* position of the script
    dk_url,       \* sidebar text input: TRUE when a URL was entered
    game_id,      \* sidebar text input: TRUE when a game id was entered
    csv,          \* what the salary URL served (<<>>: nothing fetched/failed)
    boxscore,     \* what the NBA CDN served: r.json()["game"]["players"]
    salaries,     \* None or the salary table
    stats,        \* None or the boxscore table (with DK_POINTS once scored)
    df,           \* unbound or the joined player table
    late,         \* unbound or the rows of df shown as late swap alerts
    err,          \* "" or the uncaught exception that ended the script
    rng,          \* state of numpy's global random generator
    player_pool,  \* rows of df eligible for mock lineups
    i,            \* loop counter of the mock lineup loop
    lineup,       \* rows sampled in the latest iteration (indexes of df)
    lineup_dk, early_push, late_push, impact_score,  \* latest iteration
    lineups,      \* list of lineup records built so far
    members,      \* for each built lineup, the df rows it was sampled as
    lineup_df, top_impact, fragile,                  \* results of the section
    run,          \* number of the current script run
    prev          \* what the previous run of the section saw and produced

vars == <<pc, dk_url, game_id, csv, boxscore, salaries, stats, df, late, err,
          rng, player_pool, i, lineup, lineup_dk, early_push, late_push,
          impact_score, lineups, members, lineup_df, top_impact, fragile,
          run, prev>>

mainVars == <<salaries, stats, df, late>>
lineupVars == <<rng, player_pool, i, lineup, lineup_dk, early_push, late_push,
                impact_score, lineups, members, lineup_df, top_impact, fragile,
                run, prev>>
inputVars == <<dk_url, game_id, csv, boxscore>>

-----------------------------------------------------------------------------
(* Bounds of the model *)

\* Rows of a served boxscore and of a served salary CSV (scoring branch).
MaxRows == 2

\* Boxscore players beyond LINEUP_SIZE in the tables given to the lineup
\* section, and the number of script runs in a row.
ExtraPlayers == 1
MaxRuns == 2

-----------------------------------------------------------------------------
(* Constants of the script *)

SEED == 42
SalaryFloor == 3000
NUM_LINEUPS == 50
LINEUP_SIZE == 8

-----------------------------------------------------------------------------
(* Values *)

None == <<>>
Some(t) == <<t>>
IsNone(x) == x = <<>>
Get(x) == x[1]

\* DK_POINTS is stored times Scale, so that 1.25, 1.5 and 0.5 are integers.
Scale == 4

\* A missing Salary (no salary row for the player, or an empty CSV cell).
NaN == -1

Range(s) == {s[k] : k \in DOMAIN s}

Max(a, b) == IF a >= b THEN a ELSE b

RECURSIVE SumSeq(_)
SumSeq(s) == IF s = <<>> THEN 0 ELSE Head(s) + SumSeq(Tail(s))

RECURSIVE Flatten(_)
Flatten(ss) == IF ss = <<>> THEN <<>> ELSE Head(ss) \o Flatten(Tail(ss))

-----------------------------------------------------------------------------
(* The boxscore JSON and load_boxscore *)

CountingKeys == {"points", "reboundsTotal", "assists", "steals", "blocks",
                 "turnovers", "threePointersMade"}
QuarterKeys == {"pointsQ1", "pointsQ2", "pointsQ3", "pointsQ4"}
StatKeys == CountingKeys \cup QuarterKeys

PlayerName(k) == <<"P", k>>

\* Raises KeyError (None here) as soon as one player's statistics lack a key.
load_boxscore(data) ==
    IF \A k \in DOMAIN data : StatKeys \subseteq DOMAIN data[k].statistics
    THEN Some([k \in DOMAIN data |->
            LET s == data[k].statistics IN
            [PLAYER |-> data[k].name,
             PTS |-> s["points"], REB |-> s["reboundsTotal"],
             AST |-> s["assists"], STL |-> s["steals"], BLK |-> s["blocks"],
             TOV |-> s["turnovers"], TPM |-> s["threePointersMade"],
             Q1 |-> s["pointsQ1"], Q2 |-> s["pointsQ2"],
             Q3 |-> s["pointsQ3"], Q4 |-> s["pointsQ4"]]])
    ELSE None

-----------------------------------------------------------------------------
(* DK scoring, the salary join and VALUE *)

\* Variant of dk_points that floors the score at zero.
dk_points_clamped(row) ==
    Max(0, row.PTS * Scale + row.REB * 5 + row.AST * 6 + row.STL * 8
           + row.BLK * 8 + row.TPM * 2 - row.TOV * 2)

\* 4 * (PTS + 1.25 REB + 1.5 AST + 2 STL + 2 BLK + 0.5 3PM - 0.5 TOV);
\* the column "3PM" is the field TPM.
dk_points(row) ==
      row.PTS * Scale
    + row.REB * 5
    + row.AST * 6
    + row.STL * 8
    + row.BLK * 8
    + row.TPM * 2
    - row.TOV * 2

\* stats["DK_POINTS"] = stats.apply(dk_points, axis=1)
apply_dk_points(table) ==
    [k \in DOMAIN table |-> [DK_POINTS |-> dk_points(table[k])] @@ table[k]]

\* stats.merge(salaries[["PLAYER", "Salary"]], on="PLAYER", how="left"):
\* every left row once per matching right row, in the right table's order,
\* and once with a missing Salary when nothing matches.
merge(left, right) ==
    Flatten([k \in DOMAIN left |->
        LET hits == SelectSeq(right, LAMBDA s : s.PLAYER = left[k].PLAYER) IN
        IF hits = <<>>
        THEN << [Salary |-> NaN] @@ left[k] >>
        ELSE [h \in DOMAIN hits |-> [Salary |-> hits[h].Salary] @@ left[k]] ])

\* Float division dk / (salary / 1000) as pandas/numpy do it: NaN
\* propagates, x/0 is +-inf and 0/0 is NaN.  dk is 4 * DK_POINTS.
FloatDiv(dk, salary) ==
    IF salary = NaN THEN [kind |-> "nan", num |-> 0, den |-> 1]
    ELSE IF salary = 0
         THEN IF dk > 0 THEN [kind |-> "inf", num |-> 0, den |-> 1]
              ELSE IF dk < 0 THEN [kind |-> "-inf", num |-> 0, den |-> 1]
              ELSE [kind |-> "nan", num |-> 0, den |-> 1]
    ELSE [kind |-> "num", num |-> dk * 1000, den |-> Scale * salary]

\* df["VALUE"] = df["DK_POINTS"] / (df["Salary"] / 1000)
with_value(table) ==
    [k \in DOMAIN table |->
        [VALUE |-> FloatDiv(table[k].DK_POINTS, table[k].Salary)] @@ table[k]]

\* x >= n for a float x as above (comparisons with NaN are False).
FloatGE(x, n) ==
    \/ x.kind = "inf"
    \/ x.kind = "num" /\ x.num >= n * x.den

\* (df["VALUE"] >= 5) & (df["DK_POINTS"] < df["DK_POINTS"].mean())
late_rows(table) ==
    LET total == SumSeq([k \in DOMAIN table |-> table[k].DK_POINTS])
        n == Len(table)
    IN SelectSeq([k \in DOMAIN table |-> k],
                 LAMBDA k : /\ FloatGE(table[k].VALUE, 5)
                            /\ table[k].DK_POINTS * n < total)

-----------------------------------------------------------------------------
(* Inputs of one run of the script *)

Line(pts, reb, ast, stl, blk, tov, tpm, q) ==
    [k \in StatKeys |->
        CASE k = "points" -> pts [] k = "reboundsTotal" -> reb
          [] k = "assists" -> ast [] k = "steals" -> stl
          [] k = "blocks" -> blk [] k = "turnovers" -> tov
          [] k = "threePointersMade" -> tpm
          [] k = "pointsQ1" -> q[1] [] k = "pointsQ2" -> q[2]
          [] k = "pointsQ3" -> q[3] [] k = "pointsQ4" -> q[4]]

Drop(line, keys) == [k \in (DOMAIN line) \ keys |-> line[k]]

ExampleLine == Line(10, 4, 2, 1, 1, 2, 1, <<5, 5, 10, 10>>)

\* Complete statistics objects: nothing, the worked example of the spec,
\* and one line per counting stat alone.
FullLines ==
    { Line(0, 0, 0, 0, 0, 0, 0, <<0, 0, 0, 0>>), ExampleLine,
      Line(30, 0, 0, 0, 0, 0, 0, <<9, 9, 6, 6>>),
      Line(0, 1, 0, 0, 0, 0, 0, <<0, 0, 0, 0>>),
      Line(0, 0, 2, 0, 0, 0, 0, <<0, 0, 0, 0>>),
      Line(0, 0, 0, 1, 0, 0, 0, <<0, 0, 0, 0>>),
      Line(0, 0, 0, 0, 2, 0, 0, <<0, 0, 0, 0>>),
      Line(0, 0, 0, 0, 0, 3, 0, <<0, 0, 0, 0>>),
      Line(0, 0, 0, 0, 0, 0, 1, <<0, 0, 0, 0>>) }

\* Statistics objects that lack keys.
PartialLines ==
    { Drop(ExampleLine, {"steals"}), Drop(ExampleLine, CountingKeys) }

StatLines == FullLines \cup PartialLines

\* The players of a game are distinct people: entry k is player k.
BoxscoreData ==
    UNION { [1..n -> StatLines] : n \in 0..MaxRows }

Json(lines) ==
    [k \in DOMAIN lines |-> [name |-> PlayerName(k), statistics |-> lines[k]]]

\* Salary cells of the CSV (a player without a row has no salary at all).
SalaryValues == {0, 4000}

SalaryRows ==
    [PLAYER : {PlayerName(k) : k \in 1..MaxRows}, Salary : SalaryValues]

SalaryTables ==
    UNION { [1..n -> SalaryRows] : n \in 0..MaxRows }

-----------------------------------------------------------------------------
(* The script *)

LineupFresh ==
    /\ player_pool = None
    /\ i = 0
    /\ lineup = <<>>
    /\ lineup_dk = 0 /\ early_push = 0 /\ late_push = 0
    /\ impact_score = <<0, 1>>
    /\ lineups = <<>>
    /\ members = <<>>
    /\ lineup_df = None /\ top_impact = None /\ fragile = None

Init ==
    /\ pc = "start"
    /\ dk_url \in BOOLEAN
    /\ game_id \in BOOLEAN
    /\ csv = None /\ boxscore = None
    /\ salaries = None /\ stats = None /\ df = None /\ late = None
    /\ err = ""
    /\ rng = 0
    /\ LineupFresh
    /\ run = 1
    /\ prev = None

\* salaries = None; if dk_url: try load_dk_salary_csv except: error.
\* The fetch or the parse may raise (pd.compat.StringIO exists only in old
\* pandas builds); otherwise the CSV's table is bound.
LoadSalaries ==
    /\ pc = "start"
    /\ pc' = "salaries"
    /\ \/ /\ ~dk_url
          /\ csv' = None /\ salaries' = None
       \/ /\ dk_url
          /\ csv' = None /\ salaries' = None
       \/ /\ dk_url
          /\ \E t \in SalaryTables : csv' = Some(t) /\ salaries' = Some(t)
    /\ UNCHANGED <<dk_url, game_id, boxscore, stats, df, late, err>>
    /\ UNCHANGED lineupVars

\* stats = None; if game_id: try load_boxscore except: error.
LoadBoxscore ==
    /\ pc = "salaries"
    /\ pc' = "loaded"
    /\ \/ /\ ~game_id
          /\ boxscore' = None /\ stats' = None
       \/ /\ game_id
          /\ boxscore' = None /\ stats' = None
       \/ /\ game_id
          /\ \E lines \in BoxscoreData :
                /\ boxscore' = Some(Json(lines))
                /\ stats' = load_boxscore(Json(lines))
    /\ UNCHANGED <<dk_url, game_id, csv, salaries, df, late, err>>
    /\ UNCHANGED lineupVars

BothLoaded == ~IsNone(salaries) /\ ~IsNone(stats)

\* if salaries is not None and stats is not None: score every row.  An
\* empty boxscore gives a frame without columns, and the script ends with
\* an exception (at the latest the merge lacks its key column).
Score ==
    /\ pc = "loaded"
    /\ BothLoaded
    /\ IF Get(stats) = <<>>
       THEN /\ pc' = "crashed" /\ err' = "KeyError"
            /\ UNCHANGED stats
       ELSE /\ pc' = "scored"
            /\ stats' = Some(apply_dk_points(Get(stats)))
            /\ UNCHANGED err
    /\ UNCHANGED <<salaries, df, late>>
    /\ UNCHANGED inputVars
    /\ UNCHANGED lineupVars

Merge ==
    /\ pc = "scored"
    /\ pc' = "merged"
    /\ df' = Some(merge(Get(stats), Get(salaries)))
    /\ UNCHANGED <<salaries, stats, late, err>>
    /\ UNCHANGED inputVars
    /\ UNCHANGED lineupVars

Value ==
    /\ pc = "merged"
    /\ pc' = "valued"
    /\ df' = Some(with_value(Get(df)))
    /\ UNCHANGED <<salaries, stats, late, err>>
    /\ UNCHANGED inputVars
    /\ UNCHANGED lineupVars

LateSwapAlerts ==
    /\ pc = "valued"
    /\ pc' = "done"
    /\ late' = Some(late_rows(Get(df)))
    /\ UNCHANGED <<salaries, stats, df, err>>
    /\ UNCHANGED inputVars
    /\ UNCHANGED lineupVars

\* else: the lineup-level impact section is entered.
ElseBranch ==
    /\ pc = "loaded"
    /\ ~BothLoaded
    /\ pc' = "else"
    /\ UNCHANGED <<mainVars, err>>
    /\ UNCHANGED inputVars
    /\ UNCHANGED lineupVars

\* for q in [...]: if q not in df.columns -- df was never assigned in this
\* branch, so the first read raises NameError.
LineupImpactUnbound ==
    /\ pc = "else"
    /\ IsNone(df)
    /\ pc' = "crashed"
    /\ err' = "NameError"
    /\ UNCHANGED mainVars
    /\ UNCHANGED inputVars
    /\ UNCHANGED lineupVars

Next ==
    \/ LoadSalaries
    \/ LoadBoxscore
    \/ Score
    \/ Merge
    \/ Value
    \/ LateSwapAlerts
    \/ ElseBranch
    \/ LineupImpactUnbound

Spec == Init /\ [][Next]_vars

-----------------------------------------------------------------------------
(* Claims about the scoring branch *)

Scored == pc \in {"scored", "merged", "valued", "done"}
Joined == pc \in {"merged", "valued", "done"}
Valued == pc \in {"valued", "done"}

\* The statistics the CDN served for the player of a table row.
ServedFor(name) ==
    LET data == Get(boxscore)
        k == CHOOSE k \in DOMAIN data : data[k].name = name
    IN data[k].statistics

\* A statistic of a served line, 0 when the line lacks it.
OrZero(line, key) == IF key \in DOMAIN line THEN line[key] ELSE 0

\* The scoring formula in hundredths of a point.
Hundredths(pts, reb, ast, stl, blk, tpm, tov) ==
    100 * pts + 125 * reb + 150 * ast + 200 * stl + 200 * blk
    + 50 * tpm - 50 * tov

\* C1: every row whose seven counting stats are present is scored
\* points + 1.25 rebounds + 1.5 assists + 2 steals + 2 blocks
\* + 0.5 threes - 0.5 turnovers of that row alone, negative results
\* included, in the stats table and in the joined table.
C1_DkPointsFormula ==
    /\ Scored =>
        /\ Len(Get(stats)) = Len(Get(boxscore))
        /\ \A k \in DOMAIN Get(stats) :
            LET s == Get(boxscore)[k].statistics IN
            100 * Get(stats)[k].DK_POINTS =
                Scale * Hundredths(s["points"], s["reboundsTotal"],
                    s["assists"], s["steals"], s["blocks"],
                    s["threePointersMade"], s["turnovers"])
    /\ Joined =>
        \A k \in DOMAIN Get(df) :
            LET s == ServedFor(Get(df)[k].PLAYER) IN
            100 * Get(df)[k].DK_POINTS =
                Scale * Hundredths(s["points"], s["reboundsTotal"],
                    s["assists"], s["steals"], s["blocks"],
                    s["threePointersMade"], s["turnovers"])

\* A table of two rows was scored: one row at -1.5 and the example at 21.5.
C1_Witness ==
    /\ Scored
    /\ Len(Get(stats)) = 2
    /\ Get(stats)[1].DK_POINTS = -6
    /\ Get(stats)[2].DK_POINTS = 86

\* C2: a counting stat absent from a row counts as 0 and scoring never
\* raises: once the CDN served a boxscore the table is scored row by row,
\* whatever fields some row lacks.
C2_AbsentFieldsDefaultToZero ==
    /\ (pc \notin {"start", "salaries"} /\ ~IsNone(boxscore)) => ~IsNone(stats)
    /\ Scored =>
        \A k \in DOMAIN Get(stats) :
            LET s == Get(boxscore)[k].statistics IN
            100 * Get(stats)[k].DK_POINTS =
                Scale * Hundredths(OrZero(s, "points"),
                    OrZero(s, "reboundsTotal"), OrZero(s, "assists"),
                    OrZero(s, "steals"), OrZero(s, "blocks"),
                    OrZero(s, "threePointersMade"), OrZero(s, "turnovers"))

\* C3: a zero or missing salary gives the undefined sentinel as VALUE,
\* never an infinity and never 0.
C3_UndefinedValueSentinel ==
    Valued =>
        \A k \in DOMAIN Get(df) :
            Get(df)[k].Salary \in {NaN, 0} => Get(df)[k].VALUE.kind = "nan"

\* C4: the engine (scoring, join, lineup-level section) runs only with both
\* tables loaded, and no step reads a table that was never built.
C4_EngineGatedOnBothInputs ==
    /\ Scored => BothLoaded
    /\ err # "NameError"

\* C5: the joined table has exactly one row per boxscore player, in the
\* boxscore's order; a player without a salary entry is kept with an
\* undefined salary.
C5_OneRowPerBoxscorePlayer ==
    Joined =>
        /\ Len(Get(df)) = Len(Get(stats))
        /\ \A k \in DOMAIN Get(df) :
            /\ Get(df)[k].PLAYER = Get(stats)[k].PLAYER
            /\ (\A r \in Range(Get(salaries)) :
                    r.PLAYER # Get(df)[k].PLAYER) => Get(df)[k].Salary = NaN

\* C6: alerts are flagged per lineup against the 75th percentile of the
\* batch's swap_urgency, so a batch of fewer than 4 lineups flags nothing.
C6_FewerThanFourLineupsNoFlag ==
    ~IsNone(late) => (Len(lineups) < 4 => Get(late) = <<>>)

-----------------------------------------------------------------------------
(* The lineup-level impact section *)

\* for q in ["Q1", ...]: if q not in df.columns: df[q] = 0
ensure_quarters(table) ==
    [k \in DOMAIN table |-> table[k] @@ [Q1 |-> 0, Q2 |-> 0, Q3 |-> 0, Q4 |-> 0]]

\* Variant of seed that leaves the generator where it was.
seed_skipped(s) == s

\* np.random.seed(42): the global generator restarts from the seed.
seed(s) == SEED

\* One draw of the global generator.  numpy's Mersenne Twister is modelled
\* by a small linear congruential generator: what matters is that a draw is
\* a function of the state and moves it.
NextRandom(s) == (s * 75 + 74) % 65537

\* RandomState.permutation(n): Fisher-Yates from the last position down,
\* one draw per position.
RECURSIVE Shuffle(_, _, _)
Shuffle(x, k, s) ==
    IF k <= 1 THEN [perm |-> x, rng |-> s]
    ELSE LET s2 == NextRandom(s)
             j == 1 + (s2 % k)
         IN Shuffle([x EXCEPT ![k] = x[j], ![j] = x[k]], k - 1, s2)

\* player_pool.sample(LINEUP_SIZE, replace=False) with the global generator:
\* the first `size` entries of a permutation of the pool.
sample(pool, size, s) ==
    LET sh == Shuffle([k \in 1..Len(pool) |-> k], Len(pool), s) IN
    [rows |-> [k \in 1..size |-> pool[sh.perm[k]]], rng |-> sh.rng]

\* df.dropna(subset=["Salary"]) and then Salary > 3000: the df rows kept.
pool_of(table) ==
    SelectSeq([k \in DOMAIN table |-> k],
              LAMBDA k : table[k].Salary # NaN /\ table[k].Salary > SalaryFloor)

\* Variant of impact_of that guards the divisor by its magnitude.
impact_of_magnitude(late_p, early_p, dk) ==
    << Scale * (late_p - early_p), Max(IF dk < 0 THEN -dk ELSE dk, Scale) >>

\* (late_push - early_push) / max(lineup_dk, 1) as a fraction <<num, den>>;
\* dk is 4 * lineup_dk.
impact_of(late_p, early_p, dk) ==
    << Scale * (late_p - early_p), Max(dk, Scale) >>

\* round(num / den, digits) in units of 10^-digits, den > 0: numpy and
\* Python round exact halves to the even neighbour.  (For "Value" the
\* quotient salary / 1000 may be inexact in binary, which can only matter
\* on an exact half.)
Round(num, den, unit) ==
    LET n == num * unit
        q == n \div den
        r == n % den
    IN IF 2 * r < den THEN q
       ELSE IF 2 * r > den THEN q + 1
       ELSE IF q % 2 = 0 THEN q ELSE q + 1

\* The record appended for lineup number n sampled as `rows` of `table`.
lineup_record(table, rows, n) ==
    LET dk == SumSeq([k \in DOMAIN rows |-> table[rows[k]].DK_POINTS])
        salary == SumSeq([k \in DOMAIN rows |-> table[rows[k]].Salary])
        early == SumSeq([k \in DOMAIN rows |->
                            table[rows[k]].Q1 + table[rows[k]].Q2])
        late_p == SumSeq([k \in DOMAIN rows |->
                            table[rows[k]].Q3 + table[rows[k]].Q4])
        impact == impact_of(late_p, early, dk)
    IN [Lineup |-> n,
        DK_Points |-> Round(dk, Scale, 100),
        Salary |-> salary,
        Value |-> Round(dk * 1000, Scale * salary, 100),
        Early_DK |-> early,
        Late_DK |-> late_p,
        Impact_Score |-> Round(impact[1], impact[2], 1000)]

\* numpy argsort.  The default kind (quicksort) is not stable: the order of
\* equal keys is unspecified.  Two orders are modelled, by position and by
\* reverse position.
TiePolicies == {"stable", "reverse"}

\* The column that pandas' nargsort hands to argsort: Impact Score, reversed
\* for a descending sort.
SortKey(table, ascending, b) ==
    IF ascending THEN table[b].Impact_Score
    ELSE table[Len(table) + 1 - b].Impact_Score

\* The place of position a in the argsort of that column.
RankIn(table, ascending, tie, a) ==
    1 + Cardinality({b \in DOMAIN table :
            \/ SortKey(table, ascending, b) < SortKey(table, ascending, a)
            \/ /\ SortKey(table, ascending, b) = SortKey(table, ascending, a)
               /\ IF tie = "stable" THEN b < a ELSE b > a})

Argsort(table, ascending, tie, r) ==
    CHOOSE a \in DOMAIN table : RankIn(table, ascending, tie, a) = r

\* Row r of lineup_df.sort_values("Impact Score", ascending=...) as pandas'
\* nargsort orders it: a descending sort argsorts the reversed column, maps
\* the result back to the rows and reverses it.
sort_values(table, ascending, tie, r) ==
    IF ascending THEN table[Argsort(table, TRUE, tie, r)]
    ELSE table[Len(table) + 1
               - Argsort(table, FALSE, tie, Len(table) + 1 - r)]

\* lineup_df.sort_values("Impact Score", ascending=...).head(n)
sorted_head(table, ascending, tie, n) ==
    [r \in 1..(IF Len(table) < n THEN Len(table) ELSE n) |->
        sort_values(table, ascending, tie, r)]

(* Player tables handed to the section: what the scoring branch builds from
   a boxscore of n players and a salary CSV. *)

StatProfiles == {"varied", "negative", "noquarters"}
SalaryProfiles == {"all", "missing", "floor", "duplicate"}

ProfileLine(k, prof) ==
    IF prof = "negative"
    THEN Line(0, 0, 0, 0, 0, 1, 0, <<k % 3, 1, k % 2, (2 * k) % 5>>)
    ELSE Line(2 * k, k % 3, k % 2, 0, 1, k % 4, 1,
              <<k % 3, 1, 3 * (k % 2), (2 * k) % 5>>)

ProfileSalaries(n, prof) ==
    LET row(k) == [PLAYER |-> PlayerName(k), Salary |-> SalaryFloor + 100 * k]
        rest == [k \in 1..(n - 1) |-> row(k + 1)]
    IN CASE prof = "all" -> << row(1) >> \o rest
         [] prof = "missing" -> rest
         [] prof = "floor" ->
                << [PLAYER |-> PlayerName(1), Salary |-> SalaryFloor] >> \o rest
         [] prof = "duplicate" ->
                << row(1) >> \o rest
                    \o << [PLAYER |-> PlayerName(1), Salary |-> 2 * SalaryFloor] >>

DropQuarters(table) ==
    [k \in DOMAIN table |->
        [c \in (DOMAIN table[k]) \ {"Q1", "Q2", "Q3", "Q4"} |-> table[k][c]]]

PlayerTable(n, prof, sprof) ==
    LET loaded == Get(load_boxscore(Json([k \in 1..n |-> ProfileLine(k, prof)])))
        built == with_value(merge(apply_dk_points(loaded),
                                  ProfileSalaries(n, sprof)))
    IN IF prof = "noquarters" THEN DropQuarters(built) ELSE built

\* Every salary profile with the varied statistics, the other statistics
\* with a complete salary table.
Profiles ==
    ({"varied"} \X SalaryProfiles) \cup (StatProfiles \X {"all"})

PlayerTables ==
    { PlayerTable(n, pr[1], pr[2]) :
        n \in (LINEUP_SIZE - 1)..(LINEUP_SIZE + ExtraPlayers),
        pr \in Profiles }

InitLineup ==
    /\ pc = "else"
    /\ dk_url = FALSE /\ game_id = FALSE
    /\ csv = None /\ boxscore = None
    /\ salaries = None /\ stats = None /\ late = None
    /\ df \in {Some(t) : t \in PlayerTables}
    /\ err = ""
    /\ rng \in {0, 4711}
    /\ LineupFresh
    /\ run = 1
    /\ prev = None

lineupConst == <<dk_url, game_id, csv, boxscore, salaries, stats, late, err,
                 run, prev>>

EnsureQuarters ==
    /\ pc = "else"
    /\ ~IsNone(df)
    /\ pc' = "seed"
    /\ df' = Some(ensure_quarters(Get(df)))
    /\ UNCHANGED <<rng, player_pool, i, lineup, lineup_dk, early_push,
                   late_push, impact_score, lineups, members, lineup_df,
                   top_impact, fragile>>
    /\ UNCHANGED lineupConst

Seed ==
    /\ pc = "seed"
    /\ pc' = "pool"
    /\ rng' = seed(rng)
    /\ UNCHANGED <<df, player_pool, i, lineup, lineup_dk, early_push,
                   late_push, impact_score, lineups, members, lineup_df,
                   top_impact, fragile>>
    /\ UNCHANGED lineupConst

Pool ==
    /\ pc = "pool"
    /\ pc' = "loop"
    /\ player_pool' = Some(pool_of(Get(df)))
    /\ lineups' = <<>>
    /\ UNCHANGED <<df, rng, i, lineup, lineup_dk, early_push, late_push,
                   impact_score, members, lineup_df, top_impact, fragile>>
    /\ UNCHANGED lineupConst

\* One pass of the body of: for i in range(NUM_LINEUPS)
Iterate ==
    /\ pc = "loop"
    /\ Len(Get(player_pool)) >= LINEUP_SIZE
    /\ i < NUM_LINEUPS
    /\ LET drawn == sample(Get(player_pool), LINEUP_SIZE, rng)
           t == Get(df)
           rec == lineup_record(t, drawn.rows, i + 1)
       IN /\ rng' = drawn.rng
          /\ lineup' = drawn.rows
          /\ lineup_dk' = SumSeq([k \in 1..LINEUP_SIZE |->
                                    t[drawn.rows[k]].DK_POINTS])
          /\ early_push' = rec.Early_DK
          /\ late_push' = rec.Late_DK
          /\ impact_score' = impact_of(rec.Late_DK, rec.Early_DK, lineup_dk')
          /\ lineups' = Append(lineups, rec)
          /\ members' = Append(members, drawn.rows)
    /\ i' = i + 1
    /\ pc' = "loop"
    /\ UNCHANGED <<df, player_pool, lineup_df, top_impact, fragile>>
    /\ UNCHANGED lineupConst

\* After the loop: lineup_df, and the two sorted heads.
Interpret ==
    /\ pc = "loop"
    /\ Len(Get(player_pool)) >= LINEUP_SIZE
    /\ i = NUM_LINEUPS
    /\ pc' = "done"
    /\ lineup_df' = Some(lineups)
    /\ \E tie \in TiePolicies :
        /\ top_impact' = Some(sorted_head(lineups, FALSE, tie, 5))
        /\ fragile' = Some(sorted_head(lineups, TRUE, tie, 5))
    /\ UNCHANGED <<df, rng, player_pool, i, lineup, lineup_dk, early_push,
                   late_push, impact_score, lineups, members>>
    /\ UNCHANGED lineupConst

\* else: st.info("Not enough players to construct lineups.")
NotEnoughPlayers ==
    /\ pc = "loop"
    /\ Len(Get(player_pool)) < LINEUP_SIZE
    /\ pc' = "done"
    /\ UNCHANGED <<df, rng, player_pool, i, lineup, lineup_dk, early_push,
                   late_push, impact_score, lineups, members, lineup_df,
                   top_impact, fragile>>
    /\ UNCHANGED lineupConst

\* Streamlit runs the script again in the same process: every name of the
\* script starts afresh, numpy's global generator keeps its state.
Rerun ==
    /\ pc = "done"
    /\ run < MaxRuns
    /\ run' = run + 1
    /\ prev' = Some([df |-> df, lineup_df |-> lineup_df, members |-> members])
    /\ pc' = "else"
    /\ df' \in {Some(t) : t \in PlayerTables}
    /\ player_pool' = None
    /\ i' = 0
    /\ lineup' = <<>>
    /\ lineup_dk' = 0 /\ early_push' = 0 /\ late_push' = 0
    /\ impact_score' = <<0, 1>>
    /\ lineups' = <<>>
    /\ members' = <<>>
    /\ lineup_df' = None /\ top_impact' = None /\ fragile' = None
    /\ UNCHANGED <<dk_url, game_id, csv, boxscore, salaries, stats, late, err,
                   rng>>

NextLineup ==
    \/ EnsureQuarters
    \/ Seed
    \/ Pool
    \/ Iterate
    \/ Interpret
    \/ NotEnoughPlayers
    \/ Rerun

SpecLineup == InitLineup /\ [][NextLineup]_vars

-----------------------------------------------------------------------------
(* Claims about the lineup-level impact section *)

\* The sum of val over the rows of the table that are members of the
\* lineup; every other row counts for nothing.
OverMembers(table, m, val(_)) ==
    SumSeq([k \in DOMAIN table |-> IF k \in Range(m) THEN val(table[k]) ELSE 0])

Early(row) == row.Q1 + row.Q2
Late(row) == row.Q3 + row.Q4
Points(row) == row.DK_POINTS

\* The record of lineup j states the aggregates of its own members.
AggregatesOfOwnMembers(j) ==
    LET t == Get(df)
        m == members[j]
        early == OverMembers(t, m, Early)
        late_p == OverMembers(t, m, Late)
        total == OverMembers(t, m, Points)
        divisor == IF total < Scale THEN Scale ELSE total
    IN /\ lineups[j].Early_DK = early
       /\ lineups[j].Late_DK = late_p
       /\ lineups[j].Impact_Score =
            Round(Scale * (late_p - early), divisor, 1000)
       /\ j = Len(lineups) =>
            /\ early_push = early
            /\ late_push = late_p
            /\ lineup_dk = total
            /\ impact_score[2] > 0
            /\ impact_score[1] * divisor
                    = Scale * (late_p - early) * impact_score[2]

====
